---- MODULE Spec2Model ----
(***************************************************************************)
(* Session manager of the Finamo mobile client (src/services/authService.ts *)
(* and the secure storage it uses): the in-memory access token, the stored  *)
(* refresh token, the axios request/response interceptors with their        *)
(* single-flight refresh, and login / register / logout / restoreSession.   *)
(*                                                                          *)
(* Every await of the source is a step boundary: a task (a data request, a  *)
(* login, a logout, a restoreSession) sits at a pc until the network        *)
(* response or the secure-store result it awaits arrives; what runs between *)
(* two awaits is one atomic step, as on a JavaScript event loop.            *)
(* Tokens are numbered in the order the server issues them: the n-th pair   *)
(* is access token n and refresh token n; 0 stands for null / absent.       *)
(***************************************************************************)
EXTENDS Integers, Sequences, FiniteSets, TLC

\* ------------------------------------------------------------------ bounds
NReq == 2      \* data requests the app issues through authApi
MaxTok == 2    \* token pairs the server issues in one run

Null == 0

\* Tasks: the data requests, and the session operation the app has running
\* (login, register, logout or restoreSession; AuthContext starts one at a
\* time). A burst of data requests (one starts the exchange, the others
\* queue behind it) is studied with one request more.
Reqs == 1..NReq
Burst == 1..(NReq + 1)
User == NReq + 2
Tasks == 1..(NReq + 2)
Tokens == 0..MaxTok

\* ------------------------------------------------------------------ URLs
\* A URL is the sequence of its characters, so that startsWith and includes
\* are computed as String.prototype.startsWith / includes compute them.
AuthPrefix == <<"/","a","u","t","h","/">>
LogoutPart == <<"/","l","o","g","o","u","t">>
MePart == <<"/","m","e">>
URL_LOGIN == AuthPrefix \o <<"l","o","g","i","n">>
URL_REGISTER == AuthPrefix \o <<"r","e","g","i","s","t","e","r">>
URL_REFRESH == AuthPrefix \o <<"r","e","f","r","e","s","h">>
URL_LOGOUT == AuthPrefix \o <<"l","o","g","o","u","t">>
URL_ME == AuthPrefix \o <<"m","e">>
URL_TRANSACTIONS == <<"/","t","r","a","n","s","a","c","t","i","o","n","s">>
NoUrl == <<>>

\* The URLs of the data requests (transactionService, chatService, api.ts);
\* none of them is under /auth/.
DataUrls == {URL_TRANSACTIONS}

StartsWith(s, p) == Len(s) >= Len(p) /\ SubSeq(s, 1, Len(p)) = p

Includes(s, p) ==
  \E i \in 1..(Len(s) + 1) :
     i + Len(p) - 1 <= Len(s) /\ SubSeq(s, i, i + Len(p) - 1) = p

Range(q) == {q[i] : i \in 1..Len(q)}

\* ------------------------------------------------------------------ state
VARIABLES
  inMemoryAccessToken,  \* module variable of authService.ts
  isRefreshing,         \* module variable of authService.ts
  refreshSubscribers,   \* queue of waiting requests (their callbacks)
  stored,               \* SecureStore entry finamo_refresh_token
  storedKind,           \* the response field that entry was taken from
  storeOk,              \* SecureStore works; when FALSE its calls throw
  issued,               \* server: number of the last token pair it issued
  pc,                   \* where each task is suspended
  url,                  \* config.url of a task's authApi request
  auth,                 \* config.headers.Authorization of that request
  retry,                \* config._retry of that request
  sends,                \* times the request went to the network
  tok,                  \* a task's local token (read, or received)
  err,                  \* the error a task carries or was rejected with
  call,                 \* the nested HTTP call of refresh / logout
  calls,                \* POST /auth/refresh calls a request has issued
  deviceId,             \* SecureStore entry finamo_device_id
  dev,                  \* config.headers['X-Device-ID'] of a task's request
  ret,                  \* what the app's last session operation returned
  user                  \* AuthProvider state: the user recorded

vars == <<inMemoryAccessToken, isRefreshing, refreshSubscribers, stored,
          storedKind, storeOk, issued, pc, url, auth, retry, sends, tok, err, call, calls,
          deviceId, dev, ret, user>>

NoCall == [url |-> NoUrl, auth |-> Null, dev |-> Null]

\* Device identifiers: generateDeviceId() draws a random UUID. The one that
\* gets persisted is written PersistedId; one that is returned without being
\* persisted (the fallback of getDeviceId) is written TempId.
PersistedId == 1
TempId == 2

\* The user profile of a LoginResponse / UserResponse.
UserProfile == 1

Init ==
  /\ inMemoryAccessToken = Null
  /\ isRefreshing = FALSE
  /\ refreshSubscribers = <<>>
  \* a fresh installation, or one that kept the refresh token of a session
  /\ \/ stored = Null /\ issued = 0 /\ deviceId = Null
     \/ stored = 1 /\ issued = 1 /\ deviceId = PersistedId
  /\ storedKind = IF stored = Null THEN "none" ELSE "refresh_token"
  /\ storeOk = TRUE
  /\ pc = [t \in Tasks |-> "idle"]
  /\ url = [t \in Tasks |-> NoUrl]
  /\ auth = [t \in Tasks |-> Null]
  /\ retry = [t \in Tasks |-> FALSE]
  /\ sends = [t \in Tasks |-> 0]
  /\ tok = [t \in Tasks |-> Null]
  /\ err = [t \in Tasks |-> "none"]
  /\ call = [t \in Tasks |-> NoCall]
  /\ calls = [t \in Tasks |-> 0]
  /\ dev = [t \in Tasks |-> Null]
  /\ ret = "none"
  /\ user = Null

\* ------------------------------------------------------------------ helpers
Upd(f, t, v) == [f EXCEPT ![t] = v]

\* A read that lets the failure of the secure store through.
getRefreshToken_Raw == stored

\* getRefreshToken(): the stored value, or null when SecureStore.getItemAsync
\* throws (the catch returns null).
getRefreshToken == IF storeOk THEN stored ELSE Null

\* getDeviceId(): the identifier it returns. The persisted one; a new one
\* when none is persisted; a generated one that is not persisted when the
\* secure store throws.
getDeviceId ==
  IF storeOk THEN (IF deviceId # Null THEN deviceId ELSE PersistedId)
             ELSE TempId

\* getDeviceId(): the persisted entry it leaves.
AfterGetDeviceId ==
  IF storeOk /\ deviceId = Null THEN PersistedId ELSE deviceId

\* A write that never replaces the entry.
storeRefreshToken_Keep(old, token, ok) == old

\* storeRefreshToken(token): the entry after a write that succeeded (ok) or
\* threw.
storeRefreshToken(old, token, ok) == IF ok THEN token ELSE old

\* A write that stores the access token of the response.
StoredField_Access == "access_token"

\* The field of the response whose value login, register and
\* performTokenRefresh hand to storeRefreshToken.
StoredField == "refresh_token"

\* The kind of the entry after storeRefreshToken / removeRefreshToken.
KindAfterStore(old, ok) == IF ok THEN StoredField ELSE old
KindAfterRemove(old, ok) == IF ok THEN "none" ELSE old

\* removeRefreshToken(): the entry after a delete that succeeded (ok) or threw;
\* the failure is logged and swallowed.
removeRefreshToken_Keep(old, ok) == old

removeRefreshToken(old, ok) == IF ok THEN Null ELSE old

\* setAccessToken(token)
setAccessToken(token) == token

\* A clear that leaves the token in memory.
clearAllTokens_Keep(at) == at

\* clearAllTokens(), its synchronous part: inMemoryAccessToken = null.
clearAllTokens(at) == Null

\* A test that exempts no URL.
IsAuthEndpoint_Never(u) == FALSE

\* Request interceptor: isAuthEndpoint.
IsAuthEndpoint(u) ==
  /\ StartsWith(u, AuthPrefix)
  /\ ~Includes(u, LogoutPart)
  /\ ~Includes(u, MePart)

\* Request interceptor: the Authorization header of the outgoing config, given
\* the header h the config already carries and the in-memory access token at.
RequestInterceptor(u, h, at) ==
  IF ~IsAuthEndpoint(u) /\ at # Null THEN at ELSE h

\* A test that takes every error for a 401.
Recovers_AnyStatus(status, retried, u) ==
  /\ ~retried
  /\ ~StartsWith(u, AuthPrefix)

\* The same test without the _retry flag.
Recovers_IgnoreRetry(status, retried, u) ==
  /\ status = 401
  /\ ~StartsWith(u, AuthPrefix)

\* Response interceptor, error path: TRUE when the error is a 401 that starts
\* or joins a recovery (not yet retried, not an /auth/ URL).
Recovers(status, retried, u) ==
  /\ status = 401
  /\ ~retried
  /\ ~StartsWith(u, AuthPrefix)

\* Statuses of an error response: 401, another HTTP error, or no response at
\* all (network error, timeout), written 0.
ErrorStatuses == {401, 500, 0}

\* The errors a request can be rejected with are told apart by the call that
\* produced them, which is all the code passes on: the AxiosError of the
\* request's own response, or the error performTokenRefresh threw.
OwnError == "response"
RefreshError == "refresh"

HandlerPcs == {"rf_read", "rf_post", "rf_store", "rf_clear",
               "lo_read", "lo_post", "lo_clear"}

\* A registration at the head of the queue.
subscribeTokenRefresh_Front(subs, r) == <<r>> \o subs

\* subscribeTokenRefresh(callback)
subscribeTokenRefresh(subs, r) == Append(subs, r)

\* A notification that skips the first callback.
onTokenRefreshed_SkipFirst(subs) == IF subs = <<>> THEN subs ELSE Tail(subs)

\* onTokenRefreshed(newToken): the callbacks it invokes, in order.
onTokenRefreshed(subs) == subs


\* A task is done with its authApi request: the promise has settled and the
\* config (url, headers, _retry) is garbage.
Drop(t) ==
  /\ url' = Upd(url, t, NoUrl)
  /\ auth' = Upd(auth, t, Null)
  /\ dev' = Upd(dev, t, Null)
  /\ retry' = Upd(retry, t, FALSE)
  /\ sends' = Upd(sends, t, 0)
  /\ calls' = Upd(calls, t, 0)

\* ------------------------------------------------------------------ requests
\* authApi.get/post(u) by the app: the request interceptor runs and the
\* request goes to the network.
SendRequest(r, u) ==
  /\ dev' = Upd(dev, r, getDeviceId)
  /\ deviceId' = AfterGetDeviceId
  /\ UNCHANGED <<ret, user>>
  /\ pc[r] = "idle"
  /\ url' = Upd(url, r, u)
  /\ auth' = Upd(auth, r, RequestInterceptor(u, Null, inMemoryAccessToken))
  /\ sends' = Upd(sends, r, 1)
  /\ pc' = Upd(pc, r, "sent")
  /\ UNCHANGED <<inMemoryAccessToken, isRefreshing, refreshSubscribers, stored, storedKind, storeOk,
                 issued, retry, tok, err, call, calls>>

\* A 2xx response: the response interceptor returns it.
ResponseOk(r) ==
  /\ UNCHANGED <<deviceId, ret, user>>
  /\ pc[r] \in {"sent", "resent"}
  /\ auth[r] # Null
  /\ pc' = Upd(pc, r, "ok")
  /\ err' = Upd(err, r, "none")
  /\ Drop(r)
  /\ UNCHANGED <<inMemoryAccessToken, isRefreshing, refreshSubscribers, stored, storedKind, storeOk,
                 issued, tok, call>>

\* An error response (or no response): the response interceptor's error path
\* up to its first await. A request that recovers has its Authorization and
\* X-Device-ID headers overwritten before it is sent again, so the old ones
\* are dropped here.
ResponseError(r, status) ==
  /\ UNCHANGED <<deviceId, ret, user>>
  /\ pc[r] \in {"sent", "resent"}
  /\ err' = Upd(err, r, OwnError)
  /\ IF Recovers(status, retry[r], url[r])
       THEN /\ retry' = Upd(retry, r, TRUE)
            /\ auth' = Upd(auth, r, Null)
            /\ dev' = Upd(dev, r, Null)
            /\ IF isRefreshing
                 THEN /\ refreshSubscribers' =
                           subscribeTokenRefresh(refreshSubscribers, r)
                      /\ pc' = Upd(pc, r, "queued")
                      /\ UNCHANGED isRefreshing
                 ELSE /\ isRefreshing' = TRUE
                      /\ pc' = Upd(pc, r, "rf_read")
                      /\ UNCHANGED refreshSubscribers
            /\ UNCHANGED <<url, sends, calls>>
       ELSE /\ pc' = Upd(pc, r, "rejected")
            /\ Drop(r)
            /\ UNCHANGED <<isRefreshing, refreshSubscribers>>
  /\ UNCHANGED <<inMemoryAccessToken, stored, storedKind, storeOk, issued, tok, call>>

\* ------------------------------------------------------------------ refresh
\* performTokenRefresh() is run by a request's 401 handler and by
\* restoreSession(); t is the task that runs it.

\* What the caller does when performTokenRefresh throws: the handler's catch
\* starts logout() (its first await is getRefreshToken); restoreSession's
\* catch logs and returns null.
AfterThrow(t) == IF t \in Burst THEN "lo_read" ELSE "rs_done"

\* What restoreSession returns when it has no session to restore or its
\* refresh threw: null.
RestoreFailed == "null"

\* A restoreSession that lets the error through.
RetAfterThrow_Rethrow(t) == IF t = User THEN "thrown" ELSE ret

\* What the app's operation has returned once task t is past the throw.
RetAfterThrow(t) == IF t = User THEN RestoreFailed ELSE ret

\* The error the caller keeps: the handler's catch rejects with the refresh
\* error, restoreSession's catch only logs it.
Thrown(t) == IF t \in Burst THEN Upd(err, t, RefreshError) ELSE err

\* performTokenRefresh, from its call to the POST: getRefreshToken() and
\* getDeviceId() resolve; with no token it returns null, else it posts.
RefreshRead(t) ==
  /\ deviceId' = AfterGetDeviceId
  /\ UNCHANGED user
  /\ pc[t] = "rf_read"
  /\ LET v == getRefreshToken IN
       IF v = Null
         THEN \* return null: the handler falls through to finally and
              \* rejects with the original error; restoreSession returns null
              /\ pc' = Upd(pc, t, IF t \in Burst THEN "rejected" ELSE "rs_done")
              /\ isRefreshing' = IF t \in Burst THEN FALSE ELSE isRefreshing
              /\ ret' = IF t = User THEN RestoreFailed ELSE ret
              /\ Drop(t)
              /\ UNCHANGED <<tok, call>>
         ELSE /\ tok' = Upd(tok, t, v)
              /\ call' = Upd(call, t, [url |-> URL_REFRESH, auth |-> Null,
                                       dev |-> Null])
              /\ UNCHANGED <<dev, ret>>
              /\ calls' = IF t \in Burst THEN Upd(calls, t, calls[t] + 1)
                                       ELSE calls
              /\ pc' = Upd(pc, t, "rf_post")
              /\ UNCHANGED <<isRefreshing, url, auth, retry, sends>>
  /\ UNCHANGED <<inMemoryAccessToken, refreshSubscribers, stored, storedKind, storeOk, issued, err>>

\* The server accepts the refresh token posted: it is the last one issued to
\* this device (and the run's token budget is not used up).
ServerAccepts(rt) == rt = issued /\ issued < MaxTok

\* POST /auth/refresh answers 2xx with a new pair (rotation); the caller goes
\* on to storeRefreshToken(newRefreshToken).
RefreshOk(t) ==
  /\ UNCHANGED <<deviceId, dev, ret, user>>
  /\ pc[t] = "rf_post"
  /\ ServerAccepts(tok[t])
  /\ issued' = issued + 1
  /\ tok' = Upd(tok, t, issued + 1)
  /\ call' = Upd(call, t, NoCall)
  /\ pc' = Upd(pc, t, "rf_store")
  /\ UNCHANGED <<inMemoryAccessToken, isRefreshing, refreshSubscribers, stored, storedKind, storeOk,
                 url, auth, retry, sends, err, calls>>

\* POST /auth/refresh answers 401: the catch of performTokenRefresh calls
\* clearAllTokens() (memory cleared at once, the delete awaited).
Refresh401(t) ==
  /\ UNCHANGED <<deviceId, dev, ret, user>>
  /\ pc[t] = "rf_post"
  /\ inMemoryAccessToken' = clearAllTokens(inMemoryAccessToken)
  /\ err' = Thrown(t)
  /\ call' = Upd(call, t, NoCall)
  /\ tok' = Upd(tok, t, Null)
  /\ pc' = Upd(pc, t, "rf_clear")
  /\ UNCHANGED <<isRefreshing, refreshSubscribers, stored, storedKind, storeOk, issued, url, auth,
                 retry, sends, calls>>

\* POST /auth/refresh fails otherwise (network error, timeout, 5xx, a body
\* without token data): performTokenRefresh rethrows. The server may have
\* rotated the token before the response was lost.
RefreshFailed(t, rotated) ==
  /\ ret' = RetAfterThrow(t)
  /\ UNCHANGED <<deviceId, dev, user>>
  /\ pc[t] = "rf_post"
  /\ IF rotated
       THEN ServerAccepts(tok[t]) /\ issued' = issued + 1
       ELSE UNCHANGED issued
  /\ err' = Thrown(t)
  /\ call' = Upd(call, t, NoCall)
  /\ tok' = Upd(tok, t, Null)
  /\ pc' = Upd(pc, t, AfterThrow(t))
  /\ UNCHANGED <<inMemoryAccessToken, isRefreshing, refreshSubscribers, stored, storedKind, storeOk,
                 url, auth, retry, sends, calls>>

\* The delete started by clearAllTokens() in the catch of performTokenRefresh
\* resolves; the 401 error is rethrown.
RefreshClear(t) ==
  /\ ret' = RetAfterThrow(t)
  /\ UNCHANGED <<deviceId, dev, user>>
  /\ pc[t] = "rf_clear"
  /\ stored' = removeRefreshToken(stored, storeOk)
  /\ storedKind' = KindAfterRemove(storedKind, storeOk)
  /\ pc' = Upd(pc, t, AfterThrow(t))
  /\ UNCHANGED <<inMemoryAccessToken, isRefreshing, refreshSubscribers, storeOk,
                 issued, url, auth, retry, sends, tok, err, call, calls>>

\* storeRefreshToken(newRefreshToken) throws: performTokenRefresh rethrows.
RefreshStoreFailed(t) ==
  /\ ret' = RetAfterThrow(t)
  /\ UNCHANGED <<deviceId, dev, user>>
  /\ pc[t] = "rf_store"
  /\ ~storeOk
  /\ stored' = storeRefreshToken(stored, tok[t], storeOk)
  /\ storedKind' = KindAfterStore(storedKind, storeOk)
  /\ err' = Thrown(t)
  /\ tok' = Upd(tok, t, Null)
  /\ pc' = Upd(pc, t, AfterThrow(t))
  /\ UNCHANGED <<inMemoryAccessToken, isRefreshing, refreshSubscribers, storeOk,
                 issued, url, auth, retry, sends, call, calls>>

\* The requests re-issued when the handler of request t gets its new token:
\* the queued ones, by their callbacks, then t itself.
Reissued(t, subs) == Range(onTokenRefreshed(subs)) \cup {t}

\* The order in which the re-issues are started: authApi(originalRequest) is
\* called by each callback as forEach reaches it, then by the handler.
ReleaseOrder(t, subs) == onTokenRefreshed(subs) \o <<t>>

\* The queue after onTokenRefreshed().
AfterNotify(subs) == <<>>

\* storeRefreshToken succeeds in the 401 handler of request t:
\* performTokenRefresh returns the access token; setAccessToken,
\* onTokenRefreshed, the re-issue of the original request (each re-issue
\* passes the request interceptor again), and finally isRefreshing = false.
RefreshStoredByRequest(t) ==
  /\ deviceId' = AfterGetDeviceId
  /\ UNCHANGED <<ret, user>>
  /\ t \in Burst
  /\ pc[t] = "rf_store"
  /\ storeOk
  /\ stored' = storeRefreshToken(stored, tok[t], storeOk)
  /\ storedKind' = KindAfterStore(storedKind, storeOk)
  /\ inMemoryAccessToken' = setAccessToken(tok[t])
  /\ LET woken == Reissued(t, refreshSubscribers)
     IN  /\ auth' = [q \in Tasks |->
                       IF q \in woken
                         THEN RequestInterceptor(url[q], tok[t],
                                                 setAccessToken(tok[t]))
                         ELSE auth[q]]
         /\ dev' = [q \in Tasks |->
                       IF q \in woken THEN getDeviceId ELSE dev[q]]
         /\ sends' = [q \in Tasks |->
                       IF q \in woken THEN sends[q] + 1 ELSE sends[q]]
         /\ pc' = [q \in Tasks |-> IF q \in woken THEN "resent" ELSE pc[q]]
  /\ refreshSubscribers' = AfterNotify(refreshSubscribers)
  /\ isRefreshing' = FALSE
  /\ tok' = Upd(tok, t, Null)
  /\ UNCHANGED <<storeOk, issued, url, retry, err, call, calls>>

\* What restoreSession returns when the exchange gave it an access token:
\* null ("will be updated when /me endpoint is ready").
RestoreResult(accessToken) == "null"

\* initializeAuth: the user recorded after restoreSession returned restored.
AfterRestore(restored, old) == IF restored # "null" THEN UserProfile ELSE old

\* storeRefreshToken succeeds in restoreSession: the access token is put in
\* memory and restoreSession returns; initializeAuth records the user it got.
RefreshStoredByRestore ==
  /\ ret' = RestoreResult(tok[User])
  /\ user' = AfterRestore(RestoreResult(tok[User]), user)
  /\ UNCHANGED <<deviceId, dev>>
  /\ pc[User] = "rf_store"
  /\ storeOk
  /\ stored' = storeRefreshToken(stored, tok[User], storeOk)
  /\ storedKind' = KindAfterStore(storedKind, storeOk)
  /\ inMemoryAccessToken' = tok[User]
  /\ tok' = Upd(tok, User, Null)
  /\ pc' = Upd(pc, User, "rs_done")
  /\ UNCHANGED <<isRefreshing, refreshSubscribers, storeOk, issued, url, auth,
                 retry, sends, err, call, calls>>


\* ------------------------------------------------------------------ logout
\* The app has no session operation running.
UserIdle ==
  pc[User] \in {"idle", "li_done", "li_failed", "lo_done", "rs_done",
                "me_done", "me_failed"}

\* logout(allDevices) called by the app; allDevices only goes into the body
\* of the POST. logout() is also called by the 401 handler whose refresh
\* threw; t is the task that runs it.
Logout ==
  /\ ret' = "none"
  /\ UNCHANGED <<deviceId, dev, user>>
  /\ UserIdle
  /\ pc' = Upd(pc, User, "lo_read")
  /\ UNCHANGED <<err, inMemoryAccessToken, isRefreshing, refreshSubscribers, stored, storedKind, storeOk,
                 issued, url, auth, retry, sends, tok, call, calls>>

\* logout: getRefreshToken() resolves; with a token POST /auth/logout goes out
\* through authApi, without one the finally block starts clearAllTokens().
LogoutRead(t) ==
  /\ UNCHANGED <<dev, ret, user>>
  /\ pc[t] = "lo_read"
  /\ LET v == getRefreshToken IN
       IF v # Null
         THEN /\ call' = Upd(call, t,
                   [url |-> URL_LOGOUT,
                    auth |-> RequestInterceptor(URL_LOGOUT, Null,
                                                inMemoryAccessToken),
                    dev |-> getDeviceId])
              /\ deviceId' = AfterGetDeviceId
              /\ pc' = Upd(pc, t, "lo_post")
              /\ UNCHANGED inMemoryAccessToken
         ELSE /\ inMemoryAccessToken' = clearAllTokens(inMemoryAccessToken)
              /\ pc' = Upd(pc, t, "lo_clear")
              /\ UNCHANGED <<call, deviceId>>
  /\ UNCHANGED <<isRefreshing, refreshSubscribers, stored, storedKind, storeOk, issued, url, auth,
                 retry, sends, tok, err, calls>>

\* POST /auth/logout answers (2xx, an error status or nothing); an error is
\* rejected by the response interceptor (the URL is under /auth/), caught and
\* logged by logout; the finally block starts clearAllTokens().
LogoutResponse(t, status) ==
  /\ UNCHANGED <<deviceId, dev, ret, user>>
  /\ pc[t] = "lo_post"
  /\ status \in ErrorStatuses => ~Recovers(status, FALSE, call[t].url)
  /\ inMemoryAccessToken' = clearAllTokens(inMemoryAccessToken)
  /\ call' = Upd(call, t, NoCall)
  /\ pc' = Upd(pc, t, "lo_clear")
  /\ UNCHANGED <<isRefreshing, refreshSubscribers, stored, storedKind, storeOk, issued, url, auth,
                 retry, sends, tok, err, calls>>

\* The delete of clearAllTokens() resolves and logout returns: to the app, or
\* into the handler's catch, which rejects with the refresh error and whose
\* finally block resets isRefreshing.
LogoutClear(t) ==
  /\ ret' = IF t = User THEN "void" ELSE ret
  /\ user' = IF t = User THEN Null ELSE user
  /\ UNCHANGED deviceId
  /\ pc[t] = "lo_clear"
  /\ stored' = removeRefreshToken(stored, storeOk)
  /\ storedKind' = KindAfterRemove(storedKind, storeOk)
  /\ pc' = Upd(pc, t, IF t \in Burst THEN "rejected" ELSE "lo_done")
  /\ isRefreshing' = IF t \in Burst THEN FALSE ELSE isRefreshing
  /\ Drop(t)
  /\ UNCHANGED <<inMemoryAccessToken, refreshSubscribers, storeOk, issued, tok,
                 err, call>>

\* ------------------------------------------------------------------ login
\* login(email, password) / register(name, email, password): getDeviceId()
\* resolves and the POST goes out through authApi.
Login(u) ==
  /\ dev' = Upd(dev, User, getDeviceId)
  /\ deviceId' = AfterGetDeviceId
  /\ ret' = "none"
  /\ UNCHANGED user
  /\ UserIdle
  /\ url' = Upd(url, User, u)
  /\ auth' = Upd(auth, User, RequestInterceptor(u, Null, inMemoryAccessToken))
  /\ sends' = Upd(sends, User, 1)
  /\ pc' = Upd(pc, User, "li_sent")
  /\ UNCHANGED <<err, inMemoryAccessToken, isRefreshing, refreshSubscribers, stored, storedKind, storeOk,
                 issued, retry, tok, call, calls>>

\* The token login/register puts in memory from the response.
LoginAccessToken(tokens) == tokens

\* The token login/register hands to storeRefreshToken.
LoginRefreshToken(tokens) == tokens

\* The POST answers 2xx with {user, tokens}: the access token is put in memory
\* and storeRefreshToken(tokens.refresh_token) is awaited.
LoginOk ==
  /\ UNCHANGED <<deviceId, dev, ret, user>>
  /\ pc[User] = "li_sent"
  /\ issued < MaxTok
  /\ issued' = issued + 1
  /\ tok' = Upd(tok, User, issued + 1)
  /\ inMemoryAccessToken' = LoginAccessToken(issued + 1)
  /\ pc' = Upd(pc, User, "li_store")
  /\ UNCHANGED <<isRefreshing, refreshSubscribers, stored, storedKind, storeOk, url, auth, retry,
                 sends, err, call, calls>>

\* The POST fails with an error status or no response; the response
\* interceptor rejects it (the URL is under /auth/) and login/register throw
\* before touching any token.
LoginRejected(status) ==
  /\ ret' = "thrown"
  /\ UNCHANGED <<deviceId, user>>
  /\ pc[User] = "li_sent"
  /\ ~Recovers(status, retry[User], url[User])
  /\ UNCHANGED err
  /\ pc' = Upd(pc, User, "li_failed")
  /\ Drop(User)
  /\ UNCHANGED <<inMemoryAccessToken, isRefreshing, refreshSubscribers, stored, storedKind, storeOk,
                 issued, tok, call>>

\* The POST answers 2xx with a body that holds no login data: login/register
\* throw before touching any token.
LoginNoData ==
  /\ ret' = "thrown"
  /\ UNCHANGED <<deviceId, user>>
  /\ pc[User] = "li_sent"
  /\ UNCHANGED err
  /\ pc' = Upd(pc, User, "li_failed")
  /\ Drop(User)
  /\ UNCHANGED <<inMemoryAccessToken, isRefreshing, refreshSubscribers, stored, storedKind, storeOk,
                 issued, tok, call>>

\* A login that swallows the failure of the write.
LoginReturns_Swallow(ok) == "user"

\* What login / register return once storeRefreshToken has settled: the
\* response data, or the error storeRefreshToken threw.
LoginReturns(ok) == IF ok THEN "user" ELSE "thrown"

\* storeRefreshToken resolves or throws; login/register return or throw, and
\* the AuthProvider records the user of a login that returned.
LoginStore ==
  /\ ret' = LoginReturns(storeOk)
  /\ user' = IF LoginReturns(storeOk) = "user" THEN UserProfile ELSE user
  /\ UNCHANGED deviceId
  /\ pc[User] = "li_store"
  /\ stored' = storeRefreshToken(stored, LoginRefreshToken(tok[User]), storeOk)
  /\ storedKind' = KindAfterStore(storedKind, storeOk)
  /\ UNCHANGED err
  /\ pc' = Upd(pc, User, IF LoginReturns(storeOk) = "user" THEN "li_done"
                                                             ELSE "li_failed")
  /\ tok' = Upd(tok, User, Null)
  /\ Drop(User)
  /\ UNCHANGED <<inMemoryAccessToken, isRefreshing, refreshSubscribers, storeOk,
                 issued, call>>

\* ------------------------------------------------------------------ me
\* getCurrentUser() called by the app: authApi.get('/auth/me').
GetCurrentUser ==
  /\ dev' = Upd(dev, User, getDeviceId)
  /\ deviceId' = AfterGetDeviceId
  /\ ret' = "none"
  /\ UNCHANGED user
  /\ UserIdle
  /\ url' = Upd(url, User, URL_ME)
  /\ auth' = Upd(auth, User,
                 RequestInterceptor(URL_ME, Null, inMemoryAccessToken))
  /\ sends' = Upd(sends, User, 1)
  /\ pc' = Upd(pc, User, "me_sent")
  /\ UNCHANGED <<err, inMemoryAccessToken, isRefreshing, refreshSubscribers, stored, storedKind, storeOk,
                 issued, retry, tok, call, calls>>

\* A check that takes every caller for logged in.
isAuthenticated_Always(at) == TRUE

\* isAuthenticated(): an access token is in memory.
isAuthenticated(at) == at # Null

\* refreshUser() of the AuthProvider called by the app: without an access
\* token in memory it logs and returns; with one it calls getCurrentUser(),
\* whose result CurrentUserOk / CurrentUserRejected hand on.
RefreshUser ==
  /\ UserIdle
  /\ IF isAuthenticated(inMemoryAccessToken)
       THEN /\ dev' = Upd(dev, User, getDeviceId)
            /\ deviceId' = AfterGetDeviceId
            /\ ret' = "none"
            /\ url' = Upd(url, User, URL_ME)
            /\ auth' = Upd(auth, User,
                   RequestInterceptor(URL_ME, Null, inMemoryAccessToken))
            /\ sends' = Upd(sends, User, 1)
            /\ pc' = Upd(pc, User, "me_sent")
       ELSE /\ ret' = "void"
            /\ pc' = Upd(pc, User, "me_done")
            /\ UNCHANGED <<dev, deviceId, url, auth, sends>>
  /\ UNCHANGED <<user, err, inMemoryAccessToken, isRefreshing,
                 refreshSubscribers, stored, storedKind, storeOk, issued,
                 retry, tok, call, calls>>

\* GET /auth/me answers 2xx: getCurrentUser returns the profile.
CurrentUserOk ==
  /\ ret' = "user"
  /\ user' = UserProfile
  /\ UNCHANGED deviceId
  /\ pc[User] = "me_sent"
  /\ auth[User] # Null
  /\ pc' = Upd(pc, User, "me_done")
  /\ Drop(User)
  /\ UNCHANGED <<inMemoryAccessToken, isRefreshing, refreshSubscribers, stored, storedKind, storeOk,
                 issued, tok, err, call>>

\* GET /auth/me fails: the response interceptor rejects (not a 401, or a 401
\* on a URL under /auth/) and getCurrentUser throws.
CurrentUserRejected(status) ==
  /\ ret' = "thrown"
  /\ UNCHANGED <<deviceId, user>>
  /\ pc[User] = "me_sent"
  /\ ~Recovers(status, retry[User], url[User])
  /\ UNCHANGED err
  /\ pc' = Upd(pc, User, "me_failed")
  /\ Drop(User)
  /\ UNCHANGED <<inMemoryAccessToken, isRefreshing, refreshSubscribers, stored, storedKind, storeOk,
                 issued, tok, call>>

\* ------------------------------------------------------------------ restore
\* restoreSession() called by the app.
RestoreSession ==
  /\ ret' = "none"
  /\ UNCHANGED <<deviceId, dev, user>>
  /\ UserIdle
  /\ pc' = Upd(pc, User, "rs_read")
  /\ UNCHANGED <<err, inMemoryAccessToken, isRefreshing, refreshSubscribers, stored, storedKind, storeOk,
                 issued, url, auth, retry, sends, tok, call, calls>>

\* restoreSession: its own getRefreshToken() resolves; without a token it
\* returns null, with one it calls performTokenRefresh().
RestoreRead ==
  /\ ret' = IF getRefreshToken = Null THEN RestoreFailed ELSE ret
  /\ UNCHANGED <<deviceId, dev, user>>
  /\ pc[User] = "rs_read"
  /\ LET v == getRefreshToken IN
       pc' = Upd(pc, User, IF v = Null THEN "rs_done" ELSE "rf_read")
  /\ UNCHANGED <<inMemoryAccessToken, isRefreshing, refreshSubscribers, stored, storedKind, storeOk,
                 issued, url, auth, retry, sends, tok, err, call, calls>>

\* ------------------------------------------------------------------ storage
\* The secure store starts or stops working (keychain locked or unavailable):
\* while it does not work, SecureStore.getItemAsync / setItemAsync /
\* deleteItemAsync throw.
StoreChange ==
  /\ UNCHANGED <<deviceId, dev, ret, user>>
  /\ storeOk' = ~storeOk
  /\ UNCHANGED <<inMemoryAccessToken, isRefreshing, refreshSubscribers, stored,
                 storedKind,
                 issued, pc, url, auth, retry, sends, tok, err, call, calls>>

\* ------------------------------------------------------------------ process
\* The app process ends and a new one starts: the module state of
\* authService.ts and the AuthProvider state are initialised again, every
\* pending promise is gone; the secure store and the server keep what they
\* hold.
Restart ==
  /\ inMemoryAccessToken' = Null
  /\ isRefreshing' = FALSE
  /\ refreshSubscribers' = <<>>
  /\ pc' = [t \in Tasks |-> "idle"]
  /\ url' = [t \in Tasks |-> NoUrl]
  /\ auth' = [t \in Tasks |-> Null]
  /\ retry' = [t \in Tasks |-> FALSE]
  /\ sends' = [t \in Tasks |-> 0]
  /\ tok' = [t \in Tasks |-> Null]
  /\ err' = [t \in Tasks |-> "none"]
  /\ call' = [t \in Tasks |-> NoCall]
  /\ calls' = [t \in Tasks |-> 0]
  /\ dev' = [t \in Tasks |-> Null]
  /\ ret' = "none"
  /\ user' = Null
  /\ UNCHANGED <<stored, storedKind, storeOk, issued, deviceId>>

\* ------------------------------------------------------------------ system
\* What the app and its user start.
Calls ==
  \/ \E r \in Reqs, u \in DataUrls : SendRequest(r, u)
  \/ \E u \in {URL_LOGIN, URL_REGISTER} : Login(u)
  \/ Logout
  \/ RestoreSession
  \/ GetCurrentUser
  \/ RefreshUser

\* What the event loop runs when a response or a storage result arrives.
Steps ==
  \/ \E r \in Reqs : ResponseOk(r)
  \/ \E r \in Reqs, s \in ErrorStatuses : ResponseError(r, s)
  \/ \E t \in Tasks : RefreshRead(t)
  \/ \E t \in Tasks : RefreshOk(t)
  \/ \E t \in Tasks : Refresh401(t)
  \/ \E t \in Tasks, b \in BOOLEAN : RefreshFailed(t, b)
  \/ \E t \in Tasks : RefreshClear(t)
  \/ \E t \in Tasks : RefreshStoreFailed(t)
  \/ \E t \in Reqs : RefreshStoredByRequest(t)
  \/ RefreshStoredByRestore
  \/ \E t \in Tasks : LogoutRead(t)
  \/ \E t \in Tasks, s \in {200} \cup ErrorStatuses : LogoutResponse(t, s)
  \/ \E t \in Tasks : LogoutClear(t)
  \/ LoginOk
  \/ \E s \in ErrorStatuses : LoginRejected(s)
  \/ LoginNoData
  \/ LoginStore
  \/ RestoreRead
  \/ CurrentUserOk
  \/ \E s \in ErrorStatuses : CurrentUserRejected(s)

Next == Calls \/ Steps \/ StoreChange

Spec == Init /\ [][Next]_vars

\* The app over several runs of its process.
LifeNext == Next \/ Restart

LifeSpec == Init /\ [][LifeNext]_vars

\* Every response and every storage result a task awaits eventually arrives:
\* an HTTP call ends with a response or an error, and SecureStore calls
\* settle.
\* The step of task t: each step moves the pc of the task it belongs to.
TaskStep(t) == Steps /\ pc'[t] # pc[t]

FairSpec == Spec /\ \A t \in Tasks : WF_vars(TaskStep(t))

\* The awaits that are bound to settle by what the code configures: the
\* requests of authApi carry timeout: 15000 and the SecureStore calls are
\* local; POST /auth/refresh is made with axios.post and no timeout, so
\* nothing makes it settle when the server never answers.
HasTimeout(p) == p # "rf_post"

\* A step of task t out of an await that is bound to settle.
TimedStep(t) == TaskStep(t) /\ HasTimeout(pc[t])

TimedSpec == Spec /\ \A t \in Tasks : WF_vars(TimedStep(t))

\* ------------------------------------------------------------------ burst
\* A burst of data requests of a logged-in app: the requests, their 401
\* handlers with the refresh and the forced logout, and the secure store
\* (no session operation of the app).
QueueCalls == \E r \in Burst, u \in DataUrls : SendRequest(r, u)

QueueSteps ==
  \/ \E r \in Burst : ResponseOk(r)
  \/ \E r \in Burst, s \in ErrorStatuses : ResponseError(r, s)
  \/ \E t \in Burst : RefreshRead(t)
  \/ \E t \in Burst : RefreshOk(t)
  \/ \E t \in Burst : Refresh401(t)
  \/ \E t \in Burst, b \in BOOLEAN : RefreshFailed(t, b)
  \/ \E t \in Burst : RefreshClear(t)
  \/ \E t \in Burst : RefreshStoreFailed(t)
  \/ \E t \in Burst : RefreshStoredByRequest(t)
  \/ \E t \in Burst : LogoutRead(t)
  \/ \E t \in Burst, s \in {200} \cup ErrorStatuses : LogoutResponse(t, s)
  \/ \E t \in Burst : LogoutClear(t)

QueueNext == QueueCalls \/ QueueSteps \/ StoreChange

QueueSpec == Init /\ [][QueueNext]_vars

\* The step of request t in a burst; as in FairSpec, every response and
\* every storage result a request awaits eventually arrives.
QueueStep(t) == QueueSteps /\ pc'[t] # pc[t]

FairQueueSpec == QueueSpec /\ \A t \in Burst : WF_vars(QueueStep(t))

\* ------------------------------------------------------------------ device id
\* getDeviceId() step by step. In the actions above a call of getDeviceId()
\* is one step, which is what it is when no other call of it overlaps; here
\* its two awaits (SecureStore.getItemAsync, SecureStore.setItemAsync) are
\* step boundaries and the calls of several tasks interleave. url[t] is the
\* request on whose behalf task t calls it and dev[t] the identifier the
\* call returned.

\* The identifier generateDeviceId() draws in the call made by task t.
GenId(t) == TempId + t

\* The requests of the session operations: login, register, the refresh of
\* a 401 recovery or of restoreSession, logout.
SessionUrls == {URL_LOGIN, URL_REGISTER, URL_REFRESH, URL_LOGOUT}

\* The requests for which task t calls getDeviceId(): through the request
\* interceptor for every authApi request, and directly in login, register
\* and performTokenRefresh.
DeviceCallers(t) ==
  IF t \in Burst THEN DataUrls \cup {URL_REFRESH, URL_LOGOUT}
                ELSE SessionUrls \cup {URL_ME}

\* getDeviceId() is called: SecureStore.getItemAsync(DEVICE_ID_KEY) starts.
\* logout() sends its request only when it read a refresh token.
DeviceCall(t, u) ==
  /\ pc[t] \in {"idle", "dv_done"}
  /\ u = URL_LOGOUT => getRefreshToken # Null
  /\ pc' = Upd(pc, t, "dv_read")
  /\ url' = Upd(url, t, u)
  /\ dev' = Upd(dev, t, Null)
  /\ UNCHANGED <<inMemoryAccessToken, isRefreshing, refreshSubscribers,
                 stored, storedKind, storeOk, issued, auth, retry, sends,
                 tok, err, call, calls, deviceId, ret, user>>

\* The read settles: a persisted identifier is returned; with none persisted
\* a new one is generated and SecureStore.setItemAsync starts; a read that
\* throws makes the catch return a generated identifier.
DeviceRead(t) ==
  /\ pc[t] = "dv_read"
  /\ IF ~storeOk
       THEN pc' = Upd(pc, t, "dv_done") /\ dev' = Upd(dev, t, TempId)
       ELSE IF deviceId # Null
         THEN pc' = Upd(pc, t, "dv_done") /\ dev' = Upd(dev, t, deviceId)
         ELSE pc' = Upd(pc, t, "dv_set") /\ UNCHANGED dev
  /\ UNCHANGED <<inMemoryAccessToken, isRefreshing, refreshSubscribers,
                 stored, storedKind, storeOk, issued, url, auth, retry,
                 sends, tok, err, call, calls, deviceId, ret, user>>

\* The write settles: the generated identifier is persisted and returned; a
\* write that throws makes the catch return another generated identifier.
DeviceSet(t) ==
  /\ pc[t] = "dv_set"
  /\ IF storeOk
       THEN deviceId' = GenId(t) /\ dev' = Upd(dev, t, GenId(t))
       ELSE UNCHANGED deviceId /\ dev' = Upd(dev, t, TempId)
  /\ pc' = Upd(pc, t, "dv_done")
  /\ UNCHANGED <<inMemoryAccessToken, isRefreshing, refreshSubscribers,
                 stored, storedKind, storeOk, issued, url, auth, retry,
                 sends, tok, err, call, calls, ret, user>>

\* clearAllTokens() / clearAllAuthData(): the refresh token entry is deleted
\* (a failure is swallowed), the device id entry is kept.
ClearTokens ==
  /\ inMemoryAccessToken' = clearAllTokens(inMemoryAccessToken)
  /\ stored' = removeRefreshToken(stored, storeOk)
  /\ storedKind' = KindAfterRemove(storedKind, storeOk)
  /\ stored # Null
  /\ UNCHANGED <<isRefreshing, refreshSubscribers, storeOk, issued, pc, url,
                 auth, retry, sends, tok, err, call, calls, deviceId, dev,
                 ret, user>>

DeviceNext ==
  \/ \E t \in Tasks : \E u \in DeviceCallers(t) : DeviceCall(t, u)
  \/ \E t \in Tasks : DeviceRead(t)
  \/ \E t \in Tasks : DeviceSet(t)
  \/ ClearTokens
  \/ StoreChange
  \/ Restart

DeviceSpec == Init /\ [][DeviceNext]_vars

TypeOK ==
  /\ inMemoryAccessToken \in Tokens
  /\ isRefreshing \in BOOLEAN
  /\ Range(refreshSubscribers) \subseteq Reqs
  /\ stored \in Tokens
  /\ storedKind \in {"none", "refresh_token", "access_token"}
  /\ storeOk \in BOOLEAN
  /\ issued \in Tokens
  /\ \A t \in Tasks : tok[t] \in Tokens /\ auth[t] \in Tokens
  /\ \A t \in Tasks : sends[t] \in 0..2 /\ calls[t] \in 0..1
  /\ isRefreshing <=> \E r \in Reqs : pc[r] \in HandlerPcs
  /\ deviceId \in {Null, PersistedId}
  /\ \A t \in Tasks : dev[t] \in {Null, PersistedId, TempId}
  /\ ret \in {"none", "null", "user", "void", "thrown"}
  /\ user \in {Null, UserProfile}

\* ------------------------------------------------------------------ claims
Settled == {"ok", "rejected"}

\* The tasks whose POST /auth/refresh is in flight.
RefreshInFlight == {t \in Tasks : pc[t] = "rf_post"}

\* C1: at any moment at most one POST /auth/refresh is in flight, whatever
\* the interleaving of 401 recoveries and restoreSession().
C1_SingleFlight == Cardinality(RefreshInFlight) <= 1

\* C2, as stated: requests issued concurrently that each get a 401 while a
\* valid refresh token is stored cause one refresh call in total, in every
\* arrival order. So when request r1 has been re-issued under the new token
\* and r2, sent under the token before it, is still in flight with the valid
\* refresh token stored, the 401 of r2 must not start another exchange.
C2_OneRefreshPerBurst ==
  [][\A r1, r2 \in Reqs :
       (/\ r1 # r2
        /\ pc[r1] = "resent" /\ pc[r2] = "sent"
        /\ auth[r2] # Null /\ auth[r2] < auth[r1]
        /\ auth[r1] = inMemoryAccessToken
        /\ stored = issued /\ stored # Null)
       => pc'[r2] # "rf_read"]_vars

\* C2, amended: the requests whose 401s arrive while one exchange is
\* outstanding (the first starts it, the others are queued) cause that one
\* refresh call only, and when it succeeds all of them are re-issued in the
\* same step, each carrying the new access token, which is the token in
\* memory; each then completes as the server answers it.
C2_OneRefreshPerExchange ==
  [][\A t \in Reqs :
       (pc[t] = "rf_store" /\ pc'[t] = "resent")
       => LET waiting == Range(refreshSubscribers)
          IN  /\ calls[t] = 1
              /\ \A q \in waiting : calls[q] = 0
              /\ calls' = calls
              /\ inMemoryAccessToken' = tok[t]
              /\ \A q \in waiting \cup {t} :
                    /\ pc'[q] = "resent"
                    /\ auth'[q] = tok[t]
                    /\ sends'[q] = 2]_vars

C2_Witness ==
  \E r1, r2 \in Reqs :
     /\ r1 # r2
     /\ pc[r1] = "resent" /\ pc[r2] = "resent"
     /\ calls[r1] = 1 /\ calls[r2] = 0
     /\ auth[r1] # Null /\ auth[r1] = auth[r2]
     /\ auth[r1] = inMemoryAccessToken

\* C3: when the exchange fails, the request that started it and every queued
\* request are rejected with the same error, and none is left pending.
C3_AllRejectedOnFailure ==
  [][\A t \in Reqs :
       (pc[t] \in HandlerPcs /\ pc'[t] = "rejected")
       => \A q \in Range(refreshSubscribers) :
             pc'[q] = "rejected" /\ err'[q] = err'[t]]_vars

\* C4: a request goes to the network at most twice; an error response to a
\* request already retried, or to a request whose URL is under /auth/, is
\* returned to its caller as it is, and no exchange is started or joined.
C4_RetryBudget ==
  [][/\ \A t \in Tasks : sends'[t] <= 2
     /\ \A t \in Tasks :
          (/\ pc[t] \in {"sent", "resent", "li_sent", "me_sent"}
           /\ retry[t] \/ StartsWith(url[t], AuthPrefix)
           /\ pc'[t] \notin {pc[t], "ok", "li_store", "me_done"})
          => /\ pc'[t] \in {"rejected", "li_failed", "me_failed"}
             /\ t \in Reqs => err'[t] = OwnError
             /\ isRefreshing' = isRefreshing
             /\ refreshSubscribers' = refreshSubscribers
     /\ \A t \in Tasks :
          (pc[t] = "lo_post" /\ pc'[t] # "lo_post")
          => /\ pc'[t] = "lo_clear"
             /\ isRefreshing' = isRefreshing
             /\ refreshSubscribers' = refreshSubscribers]_vars

C4_Witness ==
  \E r \in Reqs :
     /\ pc[r] = "resent" /\ retry[r] /\ sends[r] = 2
     /\ ~isRefreshing /\ refreshSubscribers = <<>>

\* C5: every request sent eventually settles (resolves or rejects), and the
\* number of refresh calls it causes is bounded (by one).
C5_EveryRequestSettles ==
  /\ [](\A r \in Reqs : calls[r] <= 1)
  /\ \A r \in Reqs : (pc[r] = "sent") ~> (pc[r] \in Settled)

PutsAccessToken(o) ==
  \/ pc[o] = "li_sent" /\ pc'[o] = "li_store"
  \/ pc[o] = "rf_store" /\ pc'[o] \in {"resent", "rs_done"}

C7_LoginSetsBoth ==
  [][(pc[User] = "li_store" /\ pc'[User] = "li_done")
     => /\ inMemoryAccessToken' = LoginAccessToken(tok[User])
        /\ stored' = LoginRefreshToken(tok[User])]_vars

\* C8: when the refresh started by a 401 succeeds, the stored refresh token
\* is the one the server returned (the previous one is overwritten), the
\* in-memory access token is the one returned, and the original request goes
\* out again with Authorization: Bearer <new access token>.
C8_RefreshRotates ==
  [][\A t \in Reqs :
       (pc[t] = "rf_store" /\ pc'[t] = "resent")
       => /\ stored' = tok[t] /\ stored' # stored
          /\ inMemoryAccessToken' = tok[t]
          /\ auth'[t] = tok[t] /\ tok[t] # Null
          /\ url'[t] = url[t]
          /\ sends'[t] = sends[t] + 1]_vars

C8_Witness ==
  \E t \in Reqs :
     /\ pc[t] = "resent" /\ calls[t] = 1 /\ sends[t] = 2
     /\ auth[t] = issued /\ stored = issued
     /\ inMemoryAccessToken = issued

\* No login, register, refresh or restore is in progress (a 401 handler is in
\* progress until it has rejected or re-issued its request).
Quiescent ==
  /\ pc[User] \notin {"li_sent", "li_store", "rs_read"} \cup HandlerPcs
  /\ \A r \in Reqs : pc[r] \notin HandlerPcs

\* C9: whenever no login, register, refresh or restore is in progress and a
\* refresh token is stored, it is the last one the server issued.
C9_StoredIsLatest == (Quiescent /\ stored # Null) => stored = issued

\* C10: a request to /auth/login, /auth/register or /auth/refresh carries no
\* Authorization header set by the pipeline; every other request sent through
\* authApi carries the in-memory access token whenever there is one.
C10_AuthorizationHeader ==
  [][\A t \in Tasks :
       /\ (url'[t] # NoUrl /\ (url'[t] # url[t] \/ sends'[t] > sends[t]))
          => IF url'[t] \in {URL_LOGIN, URL_REGISTER, URL_REFRESH}
               THEN auth'[t] = Null
               ELSE inMemoryAccessToken' # Null
                      => auth'[t] = inMemoryAccessToken'
       /\ (call'[t] # NoCall /\ call'[t] # call[t])
          => IF call'[t].url \in {URL_LOGIN, URL_REGISTER, URL_REFRESH}
               THEN call'[t].auth = Null
               ELSE inMemoryAccessToken' # Null
                      => call'[t].auth = inMemoryAccessToken']_vars

C10_Witness ==
  \E r \in Reqs :
     /\ pc[User] = "li_sent" /\ auth[User] = Null
     /\ inMemoryAccessToken # Null
     /\ pc[r] = "sent" /\ auth[r] = inMemoryAccessToken

\* A step in which task t puts its authApi request on the network.
SendsRequest(t) ==
  url'[t] # NoUrl /\ (url'[t] # url[t] \/ sends'[t] > sends[t])

\* A step in which task t starts its nested call (refresh or logout POST).
StartsCall(t) == call'[t] # NoCall /\ call'[t] # call[t]

\* C11: every request the session code sends to the backend (login,
\* register, refresh, logout, /auth/me and the data requests) carries the
\* X-Device-ID header, set to the identifier getDeviceId() returns.
C11_DeviceHeader ==
  [][\A t \in Tasks :
       /\ SendsRequest(t) => dev'[t] # Null /\ dev'[t] = getDeviceId
       /\ StartsCall(t)
            => call'[t].dev # Null /\ call'[t].dev = getDeviceId]_vars

\* restoreSession is running in the app's task.
RestorePcs == {"rs_read", "rf_read", "rf_post", "rf_store", "rf_clear"}

\* C12: restoreSession() called when no refresh token is stored, or when the
\* secure-store read fails, returns null without any network call and
\* without changing the in-memory access token.
C12_RestoreWithoutToken ==
  [][(pc[User] = "rs_read" /\ (stored = Null \/ ~storeOk)
      /\ pc'[User] # "rs_read")
     => /\ pc'[User] = "rs_done" /\ ret' = "null"
        /\ inMemoryAccessToken' = inMemoryAccessToken
        /\ call' = call /\ calls' = calls /\ sends' = sends
        /\ issued' = issued /\ stored' = stored]_vars

C12_Witness ==
  /\ pc[User] = "rs_done" /\ ret = "null"
  /\ stored = Null /\ issued = 0
  /\ inMemoryAccessToken = Null

\* C13: when a refresh token is stored and the exchange succeeds,
\* restoreSession() returns the restored user profile (not null) and the
\* startup initialization records a user.
C13_RestoreReturnsUser ==
  [][(pc[User] = "rf_store" /\ pc'[User] = "rs_done"
      /\ storeOk /\ stored' = tok[User])
     => ret' = "user" /\ user' # Null]_vars

\* C14: restoreSession() never throws: whatever fails in the exchange (401,
\* network error, timeout, missing token data, failure to persist the new
\* refresh token), it returns null.
C14_RestoreNeverThrows ==
  [][(pc[User] \in RestorePcs /\ pc'[User] \notin RestorePcs)
     => pc'[User] = "rs_done" /\ ret' = "null"]_vars

C14_Witness ==
  /\ pc[User] = "rs_done" /\ ret = "null"
  /\ stored # Null /\ stored # issued
  /\ inMemoryAccessToken = Null /\ user = Null

\* The step in which POST /auth/refresh of task t is answered 401.
Gets401(t) == pc[t] = "rf_post" /\ pc'[t] = "rf_clear"

\* The step in which the delete started by that 401 resolves and the error
\* is rethrown to the caller of performTokenRefresh.
Rethrows401(t) == pc[t] = "rf_clear" /\ pc'[t] = AfterThrow(t)

\* The rest of a recovery whose refresh was answered 401.
After401Pcs == {"rf_clear", "lo_read", "lo_post", "lo_clear"}

RecoveryFails(t) ==
  /\ retry[t]
  /\ pc[t] \in {"resent", "queued"} \cup HandlerPcs
  /\ pc'[t] = "rejected"

\* C16: whenever a 401 recovery does not end in a successful retried
\* response (the refresh fails for any reason, or the re-issued request is
\* answered 401 again), the session is logged out: the in-memory access
\* token is null and no refresh token is stored.
C16_FailedRecoveryLogsOut ==
  [][\A t \in Reqs :
       RecoveryFails(t) => inMemoryAccessToken' = Null /\ stored' = Null]_vars

\* C17: after the forced logout that follows a failed refresh, the
\* AuthProvider's user is null (isAuthenticated is false).
C17_ForcedLogoutClearsUser ==
  [][\A t \in Reqs :
       (pc[t] = "lo_clear" /\ pc'[t] = "rejected") => user' = Null]_vars

\* C18: once a device identifier is persisted, none of login, register,
\* refresh, restoreSession, logout and clearAllTokens changes or deletes it:
\* the entry changes only when a data request's call of getDeviceId writes.
C18_DeviceIdKept ==
  [][deviceId # Null
     => \/ deviceId' = deviceId
        \/ \E t \in Tasks : /\ pc[t] = "dv_set" /\ pc'[t] = "dv_done"
                             /\ url[t] \notin SessionUrls]_vars

\* The step in which a new process starts.
Restarts == pc # pc' /\ \A t \in Tasks : pc'[t] = "idle"

\* The in-memory access token goes from null to a token.
TokenAppears == inMemoryAccessToken = Null /\ inMemoryAccessToken' # Null

PersistFails(t) ==
  pc[t] \in {"li_store", "rf_store"} /\ ~storeOk /\ pc'[t] # pc[t]

\* C20: when persisting the refresh token fails, the attempt fails and the
\* failure reaches the caller: login / register throw, a 401 recovery
\* rejects its request (with the error of the refresh, the request is not
\* sent again), restoreSession reports no session.
C20_PersistFailurePropagates ==
  [][/\ PersistFails(User) /\ pc[User] = "li_store"
          => pc'[User] = "li_failed" /\ ret' = "thrown" /\ user' = user
     /\ PersistFails(User) /\ pc[User] = "rf_store"
          => /\ pc'[User] = "rs_done" /\ ret' = "null" /\ user' = user
             /\ inMemoryAccessToken' = inMemoryAccessToken
     /\ \A t \in Reqs :
          /\ PersistFails(t)
               => /\ pc'[t] = "lo_read" /\ err'[t] = RefreshError
                  /\ sends'[t] = sends[t]
                  /\ inMemoryAccessToken' = inMemoryAccessToken
          /\ (pc[t] \in {"lo_read", "lo_post", "lo_clear"}
              /\ pc'[t] # pc[t])
               => /\ pc'[t] \in {"lo_post", "lo_clear", "rejected"}
                  /\ pc'[t] = "rejected" => err'[t] = RefreshError]_vars

C20_Witness ==
  /\ pc[User] = "li_failed" /\ ret = "thrown"
  /\ inMemoryAccessToken = issued /\ inMemoryAccessToken # Null
  /\ stored # issued

\* The step in which logout(), run by task t, returns.
LogoutReturns(t) ==
  pc[t] = "lo_clear" /\ pc'[t] = (IF t \in Reqs THEN "rejected" ELSE "lo_done")

\* C21: logout() always completes without throwing, even when POST
\* /auth/logout and the secure-store delete both fail, and the in-memory
\* access token is null when it completes.
C21_LogoutAlwaysCompletes ==
  [][/\ \A t \in Tasks :
          (pc[t] \in {"lo_read", "lo_post", "lo_clear"} /\ pc'[t] # pc[t])
          => pc'[t] \in {"lo_post", "lo_clear", "lo_done", "rejected"}
     /\ \A t \in Tasks :
          LogoutReturns(t)
          => /\ inMemoryAccessToken' = Null
             /\ t = User => ret' = "void"]_vars

\* C22: refreshUser() called while no access token is in memory issues no
\* network call, leaves the recorded user unchanged and returns normally.
C22_RefreshUserNoSession ==
  [][(RefreshUser /\ inMemoryAccessToken = Null)
     => /\ ret' = "void" /\ pc'[User] = "me_done"
        /\ user' = user
        /\ url' = url /\ sends' = sends /\ call' = call /\ calls' = calls
        /\ inMemoryAccessToken' = Null /\ stored' = stored]_vars

C22_Witness ==
  /\ pc[User] = "me_done" /\ ret = "void"
  /\ inMemoryAccessToken = Null
  /\ user = UserProfile

\* C23: whenever the coordinator is idle (isRefreshing is false) the wait
\* queue refreshSubscribers is empty.
C23_QueueEmptyWhenIdle == ~isRefreshing => refreshSubscribers = <<>>

\* The step in which the 401 handler of request t starts an exchange.
EntersRefreshing(t) == pc[t] \in {"sent", "resent"} /\ pc'[t] = "rf_read"

\* C24: the coordinator enters REFRESHING only from IDLE, and every
\* REFRESHING state is eventually followed by IDLE, each network call
\* completing or timing out as the code configures it.
C24_RefreshingEnds ==
  /\ [][\A t \in Reqs :
          EntersRefreshing(t) => ~isRefreshing /\ isRefreshing']_vars
  /\ isRefreshing ~> ~isRefreshing

\* a comes before b in the sequence order.
Before(order, a, b) ==
  \E i, j \in 1..Len(order) : i < j /\ order[i] = a /\ order[j] = b

\* C25: requests queued while a refresh is outstanding are released in the
\* order in which they were registered: a request is registered behind all
\* those already waiting, and when the exchange completes the re-issue of a
\* request registered earlier is started before that of one registered
\* later.
C25_ReleaseInOrder ==
  [][\A t \in Burst :
       /\ (pc[t] # "queued" /\ pc'[t] = "queued")
            => /\ Len(refreshSubscribers') = Len(refreshSubscribers) + 1
               /\ refreshSubscribers'[Len(refreshSubscribers')] = t
               /\ \A i \in 1..Len(refreshSubscribers) :
                     refreshSubscribers'[i] = refreshSubscribers[i]
       /\ (pc[t] = "rf_store" /\ pc'[t] = "resent")
            => LET order == ReleaseOrder(t, refreshSubscribers)
               IN  \A i, j \in 1..Len(refreshSubscribers) :
                      /\ pc'[refreshSubscribers[i]] = "resent"
                      /\ i < j => Before(order, refreshSubscribers[i],
                                                refreshSubscribers[j])]_vars

C25_Witness ==
  /\ \E h \in Burst : calls[h] = 1 /\ \A q \in Burst \ {h} : calls[q] = 0
  /\ \A q \in Burst :
        pc[q] = "resent" /\ sends[q] = 2 /\ auth[q] = inMemoryAccessToken
  /\ refreshSubscribers = <<>>

\* Statuses of an error that is not a 401: another HTTP error, no response.
Not401 == ErrorStatuses \ {401}

\* The session state and the network are as they were, apart from the
\* request of task t being over.
SessionUntouched(t) ==
  /\ isRefreshing' = isRefreshing
  /\ refreshSubscribers' = refreshSubscribers
  /\ inMemoryAccessToken' = inMemoryAccessToken
  /\ stored' = stored /\ issued' = issued
  /\ call' = call
  /\ sends'[t] <= sends[t] /\ calls'[t] <= calls[t]
  /\ \A q \in Tasks \ {t} : pc'[q] = pc[q] /\ sends'[q] = sends[q]

\* C26: an error response whose status is not 401, or an error with no
\* response, is returned to the caller as it is and leaves the session state
\* unchanged: no refresh call, no re-issue, and isRefreshing, the wait queue,
\* the in-memory access token and the stored refresh token keep their
\* values.
C26_OtherErrorsPassThrough ==
  [][\A s \in Not401 :
       /\ \A r \in Reqs :
            ResponseError(r, s)
            => pc'[r] = "rejected" /\ err'[r] = OwnError
               /\ SessionUntouched(r)
       /\ LoginRejected(s)
            => pc'[User] = "li_failed" /\ ret' = "thrown"
               /\ SessionUntouched(User)
       /\ CurrentUserRejected(s)
            => pc'[User] = "me_failed" /\ ret' = "thrown"
               /\ SessionUntouched(User)]_vars

C26_Witness ==
  \E r \in Reqs :
     /\ pc[r] = "rejected" /\ err[r] = OwnError
     /\ inMemoryAccessToken = issued /\ stored = issued /\ issued # Null
     /\ storeOk /\ ~isRefreshing /\ refreshSubscribers = <<>>
     /\ \A q \in Reqs \ {r} : pc[q] = "idle"

\* The step in which login() / register() throws.
LoginFails == pc[User] \in {"li_sent", "li_store"} /\ pc'[User] = "li_failed"

\* C27: if login() or register() fails for any reason (server rejection,
\* network error, missing data in the response, failure to persist the
\* refresh token), the in-memory access token and the stored refresh token
\* are what they were before the call: the failing step changes neither, and
\* the access token of the response is not the one in memory.
C27_FailedLoginLeavesTokens ==
  [][LoginFails
     => /\ inMemoryAccessToken' = inMemoryAccessToken
        /\ stored' = stored
        /\ pc[User] = "li_store"
             => inMemoryAccessToken' # LoginAccessToken(tok[User])]_vars

\* C28: a request queued during one exchange is re-issued only with the
\* access token that exchange produces: once the exchange it was queued in
\* is over (isRefreshing is false again) with the request still waiting, no
\* later exchange invokes its callback.
C28_NoStaleCallback ==
  \A q \in Burst :
     []((pc[q] = "queued" /\ ~isRefreshing) => [](pc[q] # "resent"))

\* logout() called by the app has completed and the app has invoked no
\* session operation since.
LoggedOut == pc[User] = "lo_done"

\* C29: once logout() has completed, the in-memory access token stays null
\* and no refresh token is stored until login, register or restoreSession is
\* next invoked, even if a refresh exchange that began before the logout
\* completes afterwards.
C29_LogoutIsFinal ==
  [][(LoggedOut /\ LoggedOut')
     => /\ inMemoryAccessToken = Null => inMemoryAccessToken' = Null
        /\ stored = Null => stored' = Null]_vars

\* The calls of getDeviceId() that have returned an identifier of a working
\* secure store (not the fallback of the catch).
Returned == {t \in Tasks : pc[t] = "dv_done" /\ dev[t] \notin {Null, TempId}}

\* C30: when no device id is persisted and several getDeviceId() calls run
\* concurrently with a working secure store, all of them return the same
\* identifier and that identifier is the one left persisted.
C30_OneDeviceId ==
  \A t \in Returned :
     /\ dev[t] = deviceId
     /\ \A q \in Returned : dev[q] = dev[t]

====
